---- MODULE Spec2Model ----
(***************************************************************************)
(* Model of the interactive session driver of tests/conftest.py (the       *)
(* `spawn` fixture: a bash child on a pseudo-terminal driven through        *)
(* pexpect, with the helpers new_expect, send_command and expect_prompt)    *)
(* and of the failure handling of the two profiling scripts.                *)
(***************************************************************************)
EXTENDS Integers, Sequences, FiniteSets, TLC

\* ------------------------------------------------------------------------
\* Program constants
\* ------------------------------------------------------------------------
DEFAULT_TIMEOUT == 3

DefaultCols == 10000

prompt == <<"$", " ">>

CRLF == <<"\r", "\n">>

\* ------------------------------------------------------------------------
\* Bounds and input sets
\* ------------------------------------------------------------------------
\* number of operations the caller performs on a session handed to it
MaxOps == 2

\* commands the caller sends
Cmds == { <<"a">>, <<"a", "a">> }

\* what a command may print before the shell prints the next prompt
Outs == { <<>>, <<"a", "a", "\r", "\n">>, <<"$", " ">> }

\* pattern lists handed to expect: one pattern, or a list of two
PatternLists == { << <<"a">> >>, << <<"b">>, <<"a">> >> }

\* an optional keyword argument: <<>> when omitted, <<v>> when given
TimeoutArgs == { <<>>, <<10>> }

ColsArgs == { <<>>, <<1>> }

ArgOr(arg, default) == IF arg = <<>> THEN default ELSE arg[1]

Min(S) == CHOOSE x \in S : \A y \in S : x <= y

\* ------------------------------------------------------------------------
\* pexpect: searching the unread output
\* ------------------------------------------------------------------------
\* s occurs in buf at index i
Occurs(buf, s, i) ==
    /\ i >= 1
    /\ i + Len(s) - 1 <= Len(buf)
    /\ \A k \in 1..Len(s) : buf[i + k - 1] = s[k]

Contains(buf, s) == \E i \in 1..Len(buf) : Occurs(buf, s, i)

NoMatch == [found |-> FALSE, idx |-> 0, start |-> 0, end |-> 0]

\* re.escape: every character that is not alphanumeric gets a backslash
Special == {"$", " ", ".", "\\"}

RECURSIVE ReEscape(_)
ReEscape(s) ==
    IF s = <<>> THEN <<>>
    ELSE (IF Head(s) \in Special THEN <<"\\", Head(s)>> ELSE <<Head(s)>>)
         \o ReEscape(Tail(s))

\* re.compile, for the pattern syntax used here: \x is the literal x,
\* $ is the end-of-buffer anchor, . is any character, x is itself
RECURSIVE Compile(_)
Compile(p) ==
    IF p = <<>> THEN <<>>
    ELSE IF Head(p) = "\\" /\ Len(p) >= 2
         THEN <<[t |-> "lit", c |-> p[2]]>> \o Compile(Tail(Tail(p)))
    ELSE IF Head(p) = "$"
         THEN <<[t |-> "end", c |-> ""]>> \o Compile(Tail(p))
    ELSE IF Head(p) = "."
         THEN <<[t |-> "any", c |-> ""]>> \o Compile(Tail(p))
    ELSE <<[t |-> "lit", c |-> Head(p)]>> \o Compile(Tail(p))

\* the position after a match of the elements els at index i of buf, or 0
RECURSIVE MatchFrom(_, _, _)
MatchFrom(buf, els, i) ==
    IF els = <<>> THEN i
    ELSE LET e == Head(els) IN
         IF e.t = "end"
         THEN IF i = Len(buf) + 1 \/ (i = Len(buf) /\ buf[i] = "\n")
              THEN MatchFrom(buf, Tail(els), i) ELSE 0
         ELSE IF i > Len(buf) THEN 0
         ELSE IF e.t = "any" \/ buf[i] = e.c
              THEN MatchFrom(buf, Tail(els), i + 1) ELSE 0

\* leftmost match of one compiled pattern: <<start, end>> or <<0, 0>>
ReSearch(buf, els) ==
    LET I == {i \in 1..(Len(buf) + 1) : MatchFrom(buf, els, i) # 0}
    IN IF I = {} THEN <<0, 0>> ELSE <<Min(I), MatchFrom(buf, els, Min(I)) - 1>>

\* leftmost occurrence of one literal string: <<start, end>> or <<0, 0>>
ExactSearch(buf, s) ==
    LET I == {i \in 1..Len(buf) : Occurs(buf, s, i)}
    IN IF I = {} THEN <<0, 0>> ELSE <<Min(I), Min(I) + Len(s) - 1>>

\* the searcher: among the per-pattern matches, the one that starts first,
\* the lower list index winning a tie; idx is the 0-based list index
Best(ms) ==
    LET F == {k \in 1..Len(ms) : ms[k][1] # 0}
    IN IF F = {} THEN NoMatch
       ELSE LET s0 == Min({ms[k][1] : k \in F})
                k0 == Min({k \in F : ms[k][1] = s0})
            IN [found |-> TRUE, idx |-> k0 - 1, start |-> s0, end |-> ms[k0][2]]


\* ------------------------------------------------------------------------
\* pexpect: the blocking expectations of a spawned child
\* ------------------------------------------------------------------------
NoErr == [type |-> "none", id |-> 0]

\* (variant of Outcome: a match is not consumed)
OutcomeKeep(m, closed, buf, targ, st, eid) ==
    IF m.found
    THEN [ok |-> TRUE, ret |-> <<m.idx>>, baseRet |-> <<m.idx>>,
          start |-> m.start, end |-> m.end, consumed |-> 0,
          raised |-> NoErr, err |-> NoErr, events |-> <<>>, dumps |-> <<>>,
          waited |-> ArgOr(targ, st)]
    ELSE LET e == [type |-> IF closed THEN "EOF" ELSE "TIMEOUT", id |-> eid]
         IN [ok |-> FALSE, ret |-> <<>>, baseRet |-> <<>>,
             start |-> 0, end |-> 0,
             consumed |-> IF closed THEN Len(buf) ELSE 0,
             raised |-> e, err |-> e, events |-> <<"raise">>, dumps |-> <<>>,
             waited |-> ArgOr(targ, st)]

\* the outcome of one blocking expectation over the unread output buf:
\*   ret       what the call returns (<<i>> the index i, <<>> for None)
\*   baseRet   what the underlying pexpect call returned
\*   start,end the matched region of buf; consumed: how much of buf is dropped
\*   raised    the error the underlying call raised; err: the one the caller gets
\*   events    the order of what the call did on failure; dumps: what it printed
\*   waited    the timeout the call waited for
Outcome(m, closed, buf, targ, st, eid) ==
    IF m.found
    THEN [ok |-> TRUE, ret |-> <<m.idx>>, baseRet |-> <<m.idx>>,
          start |-> m.start, end |-> m.end, consumed |-> m.end,
          raised |-> NoErr, err |-> NoErr, events |-> <<>>, dumps |-> <<>>,
          waited |-> ArgOr(targ, st)]
    ELSE LET e == [type |-> IF closed THEN "EOF" ELSE "TIMEOUT", id |-> eid]
         IN [ok |-> FALSE, ret |-> <<>>, baseRet |-> <<>>,
             start |-> 0, end |-> 0,
             consumed |-> IF closed THEN Len(buf) ELSE 0,
             raised |-> e, err |-> e, events |-> <<"raise">>, dumps |-> <<>>,
             waited |-> ArgOr(targ, st)]

\* spawn.expect(pattern_list, timeout=-1): regular expressions
old_expect(buf, closed, pats, targ, st, eid) ==
    Outcome(Best([k \in 1..Len(pats) |-> ReSearch(buf, Compile(pats[k]))]),
            closed, buf, targ, st, eid)

\* spawn.expect_exact(pattern_list, timeout=-1): literal strings
expect_exact(buf, closed, strs, targ, st, eid) ==
    Outcome(Best([k \in 1..Len(strs) |-> ExactSearch(buf, strs[k])]),
            closed, buf, targ, st, eid)

\* ------------------------------------------------------------------------
\* conftest.py: the helpers installed on the session
\* ------------------------------------------------------------------------
\* what new_expect prints: str(shell) and str(flox_env)
Dump(buf) == [expect |-> buf, flox_env |-> "FLOX ENVIRONMENT"]

\* (variant of new_expect: the handler raises a new exception of its own)
new_expect_wrap(buf, closed, pats, targ, st, eid) ==
    LET r == old_expect(buf, closed, pats, targ, st, eid)
    IN IF r.ok
       THEN [r EXCEPT !.ret = <<>>]
       ELSE [r EXCEPT !.events = <<"dump", "raise">>,
                      !.dumps = <<Dump(buf)>>,
                      !.err = [type |-> "Exception", id |-> eid + 1]]

\* new_expect: calls old_expect and drops its result; on any exception it
\* prints the dump and raises the exception it caught
new_expect(buf, closed, pats, targ, st, eid) ==
    LET r == old_expect(buf, closed, pats, targ, st, eid)
    IN IF r.ok
       THEN [r EXCEPT !.ret = <<>>]
       ELSE [r EXCEPT !.events = <<"dump", "raise">>,
                      !.dumps = <<Dump(buf)>>,
                      !.err = r.raised]

\* the text send_command waits for
EchoTarget(cmd) == cmd \o CRLF

\* (variant of echo_wait: send_command does not wait for the echo)
echo_wait_none(buf, closed, cmd, st, eid) ==
    Outcome([found |-> TRUE, idx |-> 0, start |-> 0, end |-> 0],
            closed, buf, <<>>, st, eid)

\* (variant of echo_wait: send_command waits for the end of a line only)
echo_wait_line(buf, closed, cmd, st, eid) ==
    expect_exact(buf, closed, <<CRLF>>, <<>>, st, eid)

\* send_command's wait: shell.expect_exact(cmd + "\r\n")
echo_wait(buf, closed, cmd, st, eid) ==
    expect_exact(buf, closed, <<EchoTarget(cmd)>>, <<>>, st, eid)

\* expect_prompt(timeout=DEFAULT_TIMEOUT): shell.expect(re.escape(prompt), timeout=timeout)
expect_prompt(buf, closed, targ, st, eid) ==
    new_expect(buf, closed, <<ReEscape(prompt)>>,
               <<ArgOr(targ, DEFAULT_TIMEOUT)>>, st, eid)

\* the echo of a typed line on a terminal of the given width
Truncate(c, cols) == SubSeq(c, 1, IF Len(c) < cols THEN Len(c) ELSE cols)


\* ------------------------------------------------------------------------
\* State
\* ------------------------------------------------------------------------
VARIABLES
    pc,       \* where the caller of spawn stands
    kwargs,   \* the keyword arguments given to spawn
    sess,     \* the session: command, timeout, terminal columns
    handed,   \* the session object has been yielded to the caller
    hist,     \* the states the session passed through while being opened
    sent,     \* the lines written to the child with sendline, in order
    shell,    \* the child: none, starting, idle, running, closed
    inq,      \* lines written to the terminal and not yet read by the shell
    stream,   \* everything the child has written to the terminal
    pos,      \* how much of stream the expectations have consumed
    mk,       \* where the echo and the prompt of the last line sent lie
    last,     \* the last operation completed, as the caller saw it; an
              \* error that reaches the caller ends the test
    prev,     \* the one before
    ops,      \* operations performed on the handed session
    script,     \* the profiling script that runs: search or scrape
    ppc,        \* where its main() stands
    loop,       \* the measurement (n, or serial/parallel) and its iteration
    procs,      \* the child processes of the current batch
    widx,       \* the process the loop over the batch is at
    shown,      \* the processes whose output show_output printed
    durations,  \* the durations appended for the current measurement
    all_times,  \* the measurements an averaged time is recorded for
    printed     \* what pprint printed

svars == <<pc, kwargs, sess, handed, hist, sent, shell, inq, stream,
           pos, mk, last, prev, ops>>

pvars == <<script, ppc, loop, procs, widx, shown, durations, all_times,
           printed>>

vars == <<svars, pvars>>

NoSess == [command |-> <<>>, timeout |-> 0, cols |-> 0]

NoMark == [idle |-> FALSE, echoStart |-> 0, echoEnd |-> 0, promptStart |-> 0]

NoOp ==
    [op |-> "none", cmd |-> <<>>, explicit |-> FALSE, posBefore |-> 0,
     slen |-> 0, closed |-> FALSE, mark |-> NoMark,
     ok |-> TRUE, ret |-> <<>>, baseRet |-> <<>>, start |-> 0, end |-> 0,
     consumed |-> 0, raised |-> NoErr, err |-> NoErr, events |-> <<>>,
     dumps |-> <<>>, waited |-> 0]

\* the record of a completed operation: its outcome r, with the matched
\* region as positions of stream, and the circumstances of the call
Done(name, cmd, explicit, r) ==
    [op |-> name, cmd |-> cmd, explicit |-> explicit, posBefore |-> pos,
     slen |-> Len(stream), closed |-> (shell = "closed"), mark |-> mk,
     ok |-> r.ok, ret |-> r.ret, baseRet |-> r.baseRet,
     start |-> IF r.ok THEN pos + r.start ELSE 0,
     end |-> IF r.ok THEN pos + r.end ELSE 0,
     consumed |-> r.consumed, raised |-> r.raised, err |-> r.err,
     events |-> r.events, dumps |-> r.dumps, waited |-> r.waited]

\* what is kept of the operation before the last one
Before(l) == [op |-> l.op, cmd |-> l.cmd, end |-> l.end, slen |-> l.slen]

\* the output not yet consumed
Unread == SubSeq(stream, pos + 1, Len(stream))

\* a fresh identity for the next error object
NextErrId == ops + Len(hist) + 1

PInit ==
    /\ script = "none"
    /\ ppc = "off"
    /\ loop = [m |-> 0, it |-> 0]
    /\ procs = <<>>
    /\ widx = 0
    /\ shown = <<>>
    /\ durations = 0
    /\ all_times = <<>>
    /\ printed = <<>>

Init ==
    /\ pc = "init"
    /\ kwargs = [timeout |-> <<>>, dimensions |-> <<>>]
    /\ sess = NoSess
    /\ handed = FALSE
    /\ hist = <<>>
    /\ sent = <<>>
    /\ shell = "none"
    /\ inq = <<>>
    /\ stream = <<>>
    /\ pos = 0
    /\ mk = NoMark
    /\ last = NoOp
    /\ prev = Before(NoOp)
    /\ ops = 0
    /\ PInit

\* ------------------------------------------------------------------------
\* The caller and the spawn fixture
\* ------------------------------------------------------------------------
\* spawn(command, **kwargs): _run is a contextlib.contextmanager, so the call
\* builds the context manager and runs nothing of the body
CallSpawn(command, targ, carg) ==
    /\ pc = "init"
    /\ pc' = "cm"
    /\ kwargs' = [timeout |-> targ, dimensions |-> carg]
    /\ sess' = [NoSess EXCEPT !.command = command]
    /\ UNCHANGED <<handed, hist, sent, shell, inq, stream, pos, mk,
                   last, prev, ops>>
    /\ UNCHANGED pvars

\* shell = spawn(...); shell.expect(...): the context manager has no expect
UseUnentered ==
    /\ pc = "cm"
    /\ pc' = "failed"
    /\ prev' = Before(last)
    /\ last' = [NoOp EXCEPT !.op = "attribute", !.ok = FALSE,
                            !.err = [type |-> "AttributeError", id |-> NextErrId],
                            !.raised = [type |-> "AttributeError", id |-> NextErrId],
                            !.events = <<"raise">>]
    /\ UNCHANGED <<kwargs, sess, handed, hist, sent, shell, inq,
                   stream, pos, mk, ops>>
    /\ UNCHANGED pvars

\* with spawn(...) as shell: the body of _run up to its first wait.  The
\* defaults are set, bash is spawned, the helpers are installed and
\* shell.expect_prompt() starts to wait.
Enter ==
    /\ pc = "cm"
    /\ pc' = "awaitingInitialPrompt"
    /\ sess' = [sess EXCEPT !.timeout = ArgOr(kwargs.timeout, DEFAULT_TIMEOUT),
                            !.cols = ArgOr(kwargs.dimensions, DefaultCols)]
    /\ shell' = "starting"
    /\ hist' = <<"Created", "AwaitingInitialPrompt">>
    /\ UNCHANGED <<kwargs, handed, sent, inq, stream, pos, mk, last,
                   prev, ops>>
    /\ UNCHANGED pvars

\* shell.sendline(cmd)
SendLine(cmd) ==
    /\ sent' = Append(sent, cmd)
    /\ inq' = Append(inq, cmd)
    /\ mk' = [NoMark EXCEPT !.idle = (shell = "idle" /\ inq = <<>>)]

\* (variant of ReadinessWaitDone: the outcome of the wait is ignored and
\* the command is sent anyway)
ReadinessWaitIgnored ==
    /\ pc = "awaitingInitialPrompt"
    /\ LET r == expect_prompt(Unread, shell = "closed", <<>>, sess.timeout, NextErrId)
       IN /\ prev' = Before(last)
          /\ last' = Done("readiness", <<>>, FALSE, r)
          /\ pos' = pos + r.consumed
          /\ pc' = "awaitingEcho"
          /\ hist' = hist \o <<"Ready", "AwaitingEcho">>
          /\ SendLine(sess.command)
    /\ UNCHANGED <<kwargs, sess, handed, shell, stream, ops>>
    /\ UNCHANGED pvars

\* the readiness wait of _run ends.  On success send_command(command)
\* writes the command and starts to wait for its echo; on failure the
\* error leaves _run.
ReadinessWaitDone ==
    /\ pc = "awaitingInitialPrompt"
    /\ LET r == expect_prompt(Unread, shell = "closed", <<>>, sess.timeout, NextErrId)
       IN /\ prev' = Before(last)
          /\ last' = Done("readiness", <<>>, FALSE, r)
          /\ pos' = pos + r.consumed
          /\ IF r.ok
             THEN /\ pc' = "awaitingEcho"
                  /\ hist' = hist \o <<"Ready", "AwaitingEcho">>
                  /\ SendLine(sess.command)
             ELSE /\ pc' = "failed"
                  /\ hist' = Append(hist, "Failed")
                  /\ UNCHANGED <<sent, inq, mk>>
    /\ UNCHANGED <<kwargs, sess, handed, shell, stream, ops>>
    /\ UNCHANGED pvars

\* the echo wait of send_command ends: in _run (then the session is
\* yielded to the caller) or in a send_command of the caller
EchoWaitDone ==
    /\ pc = "awaitingEcho"
    /\ LET r == echo_wait(Unread, shell = "closed", sent[Len(sent)], sess.timeout, NextErrId)
       IN /\ prev' = Before(last)
          /\ last' = Done("send_command", sent[Len(sent)], FALSE, r)
          /\ pos' = pos + r.consumed
          /\ IF handed
             THEN /\ pc' = IF r.ok THEN "ready" ELSE "failed"
                  /\ UNCHANGED <<handed, hist>>
             ELSE IF r.ok
                  THEN /\ pc' = "ready"
                       /\ handed' = TRUE
                       /\ hist' = Append(hist, "Ready")
                  ELSE /\ pc' = "failed"
                       /\ hist' = Append(hist, "Failed")
                       /\ UNCHANGED handed
    /\ UNCHANGED <<kwargs, sess, sent, shell, inq, stream, mk, ops>>
    /\ UNCHANGED pvars

\* shell.send_command(cmd) of the caller: the line is written, the echo
\* wait starts
SendCommand(cmd) ==
    /\ pc = "ready"
    /\ handed
    /\ ops < MaxOps
    /\ ops' = ops + 1
    /\ pc' = "awaitingEcho"
    /\ SendLine(cmd)
    /\ UNCHANGED <<kwargs, sess, handed, hist, shell, stream, pos,
                   last, prev>>
    /\ UNCHANGED pvars

\* shell.expect(patterns, timeout=...) of the caller
Expect(pats, targ) ==
    /\ pc = "ready"
    /\ handed
    /\ ops < MaxOps
    /\ ops' = ops + 1
    /\ LET r == new_expect(Unread, shell = "closed", pats, targ, sess.timeout, NextErrId)
       IN /\ prev' = Before(last)
          /\ last' = Done("expect", <<>>, targ # <<>>, r)
          /\ pos' = pos + r.consumed
          /\ pc' = IF r.ok THEN "ready" ELSE "failed"
    /\ UNCHANGED <<kwargs, sess, handed, hist, sent, shell, inq,
                   stream, mk>>
    /\ UNCHANGED pvars

\* shell.expect_prompt(timeout=...) of the caller
ExpectPrompt(targ) ==
    /\ pc = "ready"
    /\ handed
    /\ ops < MaxOps
    /\ ops' = ops + 1
    /\ LET r == expect_prompt(Unread, shell = "closed", targ, sess.timeout, NextErrId)
       IN /\ prev' = Before(last)
          /\ last' = Done("expect_prompt", <<>>, targ # <<>>, r)
          /\ pos' = pos + r.consumed
          /\ pc' = IF r.ok THEN "ready" ELSE "failed"
    /\ UNCHANGED <<kwargs, sess, handed, hist, sent, shell, inq,
                   stream, mk>>
    /\ UNCHANGED pvars

\* ------------------------------------------------------------------------
\* The child: bash --norc --noprofile on the pseudo-terminal, PS1 = prompt
\* ------------------------------------------------------------------------
\* the shell prints its first prompt
ShellStart ==
    /\ shell = "starting"
    /\ shell' = "idle"
    /\ stream' = stream \o prompt
    /\ UNCHANGED <<pc, kwargs, sess, handed, hist, sent, inq, pos, mk, last,
                   prev, ops>>
    /\ UNCHANGED pvars

\* the idle shell reads the next typed line: the terminal echoes it, cut at
\* the terminal width, and the shell runs it
ShellRead ==
    /\ shell = "idle"
    /\ inq # <<>>
    /\ shell' = "running"
    /\ stream' = stream \o Truncate(Head(inq), sess.cols) \o CRLF
    /\ inq' = Tail(inq)
    /\ mk' = IF Len(inq) = 1
             THEN [mk EXCEPT !.echoStart = Len(stream) + 1,
                             !.echoEnd = Len(stream')]
             ELSE mk
    /\ UNCHANGED <<pc, kwargs, sess, handed, hist, sent, pos, last, prev, ops>>
    /\ UNCHANGED pvars

\* the running command prints its output and ends; the shell prints the
\* next prompt
ShellFinish(o) ==
    /\ shell = "running"
    /\ shell' = "idle"
    /\ stream' = stream \o o \o prompt
    /\ mk' = IF inq = <<>>
             THEN [mk EXCEPT !.promptStart = Len(stream) + Len(o) + 1]
             ELSE mk
    /\ UNCHANGED <<pc, kwargs, sess, handed, hist, sent, inq, pos, last,
                   prev, ops>>
    /\ UNCHANGED pvars

\* the running command ends the shell: the output stream closes
ShellExit ==
    /\ shell = "running"
    /\ shell' = "closed"
    /\ UNCHANGED <<pc, kwargs, sess, handed, hist, sent, inq, stream, pos,
                   mk, last, prev, ops>>
    /\ UNCHANGED pvars

Next ==
    \/ \E c \in Cmds, t \in TimeoutArgs, d \in ColsArgs : CallSpawn(c, t, d)
    \/ UseUnentered
    \/ Enter
    \/ ReadinessWaitDone
    \/ EchoWaitDone
    \/ \E c \in Cmds : SendCommand(c)
    \/ \E pl \in PatternLists, t \in TimeoutArgs : Expect(pl, t)
    \/ \E t \in TimeoutArgs : ExpectPrompt(t)
    \/ ShellStart
    \/ ShellRead
    \/ \E o \in Outs : ShellFinish(o)
    \/ ShellExit

Spec == Init /\ [][Next]_vars


\* ------------------------------------------------------------------------
\* The profiling scripts
\* ------------------------------------------------------------------------
\* iterations, max_procs and the number of prefixes, scaled down
Iterations == 3

MaxProcs == 3

NPrefixes == 3

ReturnCodes == {0, 1}

\* returncode of a process that has not been waited for
Running == 0 - 1

\* the key of all_times a measurement is recorded under
Key(sc, m) == [script |-> sc, m |-> m]

Failing == {i \in 1..Len(procs) : procs[i].rc \notin {0, Running}}

\* main() starts; profile_search scans n = 1..max_procs, profile_parallel_scrape
\* measures serial (m = 1) and then parallel (m = 2)
PStart(sc) ==
    /\ ppc = "off"
    /\ script' = sc
    /\ ppc' = "loop"
    /\ loop' = [m |-> 1, it |-> 0]
    /\ UNCHANGED <<procs, widx, shown, durations, all_times, printed>>
    /\ UNCHANGED svars

\* the end of an iteration that did not fail: the duration is counted; after
\* the last iteration the average is recorded, and printed where the script
\* prints it
EndIteration(count) ==
    LET last_it == (loop.it + 1 = Iterations)
        last_m == (loop.m = IF script = "search" THEN MaxProcs ELSE 2)
        times == IF last_it THEN Append(all_times, Key(script, loop.m))
                 ELSE all_times
    IN /\ durations' = IF last_it THEN 0 ELSE durations + count
       /\ all_times' = times
       /\ loop' = IF last_it THEN [m |-> loop.m + 1, it |-> 0]
                  ELSE [loop EXCEPT !.it = loop.it + 1]
       /\ printed' = IF last_it /\ (script = "scrape" \/ last_m)
                     THEN Append(printed, times) ELSE printed
       /\ ppc' = IF last_it /\ last_m THEN "done" ELSE "loop"

\* profile_search: one iteration starts n processes and waits for all of
\* them (rcs: how each would end); the duration is appended before the
\* return codes are looked at
SearchRun(rcs) ==
    /\ script = "search"
    /\ ppc = "loop"
    /\ procs' = [i \in 1..loop.m |-> [id |-> i, rc |-> rcs[i]]]
    /\ durations' = durations + 1
    /\ ppc' = "check"
    /\ UNCHANGED <<script, loop, widx, shown, all_times, printed>>
    /\ UNCHANGED svars

\* show_output(p), for the process the loop variable names
show_search(i) == procs[i].id

\* profile_search: the loop over the batch that looks for a failure
SearchCheck ==
    /\ script = "search"
    /\ ppc = "check"
    /\ IF Failing # {}
       THEN /\ widx' = Min(Failing)
            /\ shown' = Append(shown, show_search(Min(Failing)))
            /\ ppc' = "failed"
            /\ UNCHANGED <<loop, durations, all_times, printed>>
       ELSE /\ EndIteration(0)
            /\ UNCHANGED <<widx, shown>>
    /\ UNCHANGED <<script, procs>>
    /\ UNCHANGED svars

\* profile_parallel_scrape, serial: one process at a time; a failing one is
\* shown and main() returns
ScrapeSerial(rc) ==
    /\ script = "scrape"
    /\ ppc = "loop"
    /\ loop.m = 1
    /\ procs' = <<[id |-> widx + 1, rc |-> rc]>>
    /\ IF rc # 0
       THEN /\ widx' = 1
            /\ shown' = Append(shown, widx + 1)
            /\ ppc' = "failed"
            /\ UNCHANGED <<loop, durations, all_times, printed>>
       ELSE IF widx + 1 < NPrefixes
       THEN /\ widx' = widx + 1
            /\ UNCHANGED <<ppc, loop, shown, durations, all_times, printed>>
       ELSE /\ widx' = 0
            /\ EndIteration(1)
            /\ UNCHANGED shown
    /\ UNCHANGED script
    /\ UNCHANGED svars

\* profile_parallel_scrape, parallel: one process per prefix is started
ScrapeLaunch ==
    /\ script = "scrape"
    /\ ppc = "loop"
    /\ loop.m = 2
    /\ procs' = [i \in 1..NPrefixes |-> [id |-> i, rc |-> Running]]
    /\ widx' = 1
    /\ ppc' = "wait"
    /\ UNCHANGED <<script, loop, shown, durations, all_times, printed>>
    /\ UNCHANGED svars

\* show_output(proc) in the loop `for p in procs`: proc is the variable of
\* the launching loop, the process started last
show_parallel(i) == procs[Len(procs)].id

\* profile_parallel_scrape, parallel: p.wait() for the next process of the
\* batch, and the look at its return code
ScrapeWait(rc) ==
    /\ script = "scrape"
    /\ ppc = "wait"
    /\ procs' = [procs EXCEPT ![widx].rc = rc]
    /\ IF rc # 0
       THEN /\ shown' = Append(shown, show_parallel(widx))
            /\ ppc' = "failed"
            /\ UNCHANGED <<widx, loop, durations, all_times, printed>>
       ELSE IF widx < Len(procs)
       THEN /\ widx' = widx + 1
            /\ UNCHANGED <<ppc, loop, shown, durations, all_times, printed>>
       ELSE /\ widx' = 0
            /\ EndIteration(1)
            /\ UNCHANGED shown
    /\ UNCHANGED script
    /\ UNCHANGED svars

PNext ==
    \/ \E sc \in {"search", "scrape"} : PStart(sc)
    \/ \E rcs \in [1..MaxProcs -> ReturnCodes] : SearchRun(rcs)
    \/ SearchCheck
    \/ \E rc \in ReturnCodes : ScrapeSerial(rc)
    \/ ScrapeLaunch
    \/ \E rc \in ReturnCodes : ScrapeWait(rc)

ProfileSpec == Init /\ [][PNext]_vars


\* ------------------------------------------------------------------------
\* Properties of the session driver
\* ------------------------------------------------------------------------
Range(q) == {q[i] : i \in 1..Len(q)}

\* the unread output at the time the operation l was called
UnreadAt(l) == SubSeq(stream, l.posBefore + 1, l.slen)

\* C1: when expect(pattern, timeout) fails with a timeout or because the
\* stream closed, the dump (the unread transcript and the project
\* descriptor) is written first and the error is raised afterwards, and the
\* error the caller receives is the one the underlying expect raised, with
\* the same identity and type.
C1_DumpThenRethrow ==
    (last.op = "expect" /\ ~last.ok) =>
        /\ last.events = <<"dump", "raise">>
        /\ last.dumps = <<Dump(UnreadAt(last))>>
        /\ last.raised.type \in {"TIMEOUT", "EOF"}
        /\ last.err = last.raised

C1_Witness ==
    /\ last.op = "expect"
    /\ ~last.ok
    /\ last.err.type = "EOF"
    /\ last.dumps # <<>>

\* C2: every kind of blocking expectation (echo wait, pattern expect,
\* expect_prompt, readiness wait) that fails has emitted exactly one dump
\* when the error reaches the caller.
C2_OneDumpPerFailure ==
    (last.op \in {"send_command", "expect", "expect_prompt", "readiness"} /\ ~last.ok)
        => Len(last.dumps) = 1

\* C3: when spawn(command) has returned, the shell is spawned, the initial
\* prompt has been awaited, the command has been sent, and the returned
\* object serves expect, expect_prompt and send_command directly.
C3_SpawnReturnsOpenSession ==
    /\ pc = "cm" => (shell # "none" /\ handed /\ sent = <<sess.command>>)
    /\ last.op = "attribute" => last.ok

\* C6: an expectation called without a timeout (the echo wait of
\* send_command, expect(pattern), expect_prompt()) waits for the timeout the
\* session was opened with, 3 seconds when none was configured.
C6_SessionTimeoutEverywhere ==
    (last.op \in {"send_command", "expect", "expect_prompt"} /\ ~last.explicit)
        => last.waited = sess.timeout

\* C9: when the underlying expect succeeds, the expect installed on the
\* session returns what the underlying expect returned (the index of the
\* matched pattern), consumes the same output and emits no dump.
C9_WrapperReturnsIndex ==
    (last.op = "expect" /\ last.ok) =>
        /\ last.ret = last.baseRet
        /\ last.consumed = last.end - last.posBefore
        /\ last.dumps = <<>>

\* C8: a session is opened in the order Created, AwaitingInitialPrompt,
\* Ready, AwaitingEcho: the readiness wait is performed once and succeeds
\* (it has consumed the initial prompt) before the command is written and
\* before the session is handed to the caller; when the readiness wait
\* fails, no command is written and no session is handed over.
C8_OpenOrder ==
    LET open == <<"Created", "AwaitingInitialPrompt", "Ready", "AwaitingEcho", "Ready">>
    IN /\ \/ \E n \in 0..5 : hist = SubSeq(open, 1, n)
          \/ hist = <<"Created", "AwaitingInitialPrompt", "Failed">>
          \/ hist = <<"Created", "AwaitingInitialPrompt", "Ready", "AwaitingEcho", "Failed">>
       /\ sent # <<>> =>
             /\ Len(hist) >= 4
             /\ hist[3] = "Ready"
             /\ pos >= Len(prompt)
             /\ SubSeq(stream, 1, Len(prompt)) = prompt
             /\ sent[1] = sess.command
       /\ handed => (hist = open /\ sent # <<>> /\ pos >= Len(prompt) + Len(EchoTarget(sess.command)))
       /\ (Len(hist) = 3 /\ hist[3] = "Failed") =>
             (sent = <<>> /\ inq = <<>> /\ ~handed /\ pc = "failed")

C8_Witness ==
    /\ handed
    /\ pc = "ready"
    /\ ops = 0
    /\ last.op = "send_command"
    /\ prev.op = "readiness"

\* C5 as stated: two expect_prompt calls in direct succession with no
\* output from the child in between: the second fails with a timeout.
C5_SecondPromptTimesOut ==
    (last.op = "expect_prompt" /\ prev.op = "expect_prompt" /\ last.slen = prev.slen)
        => (~last.ok /\ last.err.type = "TIMEOUT")

\* C5, amended: a successful expectation consumes the output up to and
\* including its match, and the match position only moves forward.  Of two
\* expect_prompt calls in direct succession with no output in between, the
\* second fails (with a timeout, or with end-of-stream when the child has
\* exited) unless the output left after the first match holds the prompt
\* text once more; then it matches that later occurrence, never the prompt
\* the first call consumed.
C5_PromptConsumed ==
    (last.op = "expect_prompt" /\ prev.op = "expect_prompt" /\ last.slen = prev.slen)
        => /\ last.posBefore = prev.end
           /\ IF Contains(SubSeq(stream, prev.end + 1, last.slen), prompt)
              THEN last.ok /\ last.start > prev.end
              ELSE /\ ~last.ok
                   /\ last.err.type = IF last.closed THEN "EOF" ELSE "TIMEOUT"

C5_Witness ==
    /\ last.op = "expect_prompt"
    /\ prev.op = "expect_prompt"
    /\ last.slen = prev.slen
    /\ ~last.ok
    /\ last.err.type = "TIMEOUT"

\* the unread output that lay before the echo of the command of l
StaleAt(l) ==
    SubSeq(stream, l.posBefore + 1,
           IF l.mark.echoStart = 0 THEN l.slen ELSE l.mark.echoStart - 1)

\* what the command printed, between its echo and the following prompt
OutputOf(m) == SubSeq(stream, m.echoEnd + 1, m.promptStart - 1)

C7_LongCommandFlagged ==
    (last.op = "send_command" /\ Len(last.cmd) > sess.cols) => ~last.ok

\* C7, amended: nothing validates the length of a command.  For a command
\* c longer than the terminal's column count the echo is cut and does not
\* match, so the echo wait fails, unless c followed by "\r\n" occurs in the
\* unread output apart from the echo (output left unread before it, or the
\* output of c); then send_command returns successfully.  What it matched
\* is always the full text c + "\r\n", never the cut echo.
C7_LongCommandNeverMatchesCutEcho ==
    (last.op = "send_command" /\ Len(last.cmd) > sess.cols) =>
        /\ last.ok <=> Contains(UnreadAt(last), EchoTarget(last.cmd))
        /\ last.ok =>
             /\ SubSeq(stream, last.start, last.end) = EchoTarget(last.cmd)
             /\ ~(last.start = last.mark.echoStart /\ last.end = last.mark.echoEnd)

C7_Witness ==
    /\ last.op = "send_command"
    /\ Len(last.cmd) > sess.cols
    /\ last.mark.echoEnd # 0
    /\ ~last.ok

\* ------------------------------------------------------------------------
\* Properties of the profiling scripts
\* ------------------------------------------------------------------------
\* C10: when a process of a batch exits with a non-zero code, the script
\* prints the output of that process, and it stops without an averaged time
\* recorded or printed for the interrupted measurement.
C10_FailingProcessShown ==
    ppc = "failed" =>
        /\ procs[widx].rc \notin {0, Running}
        /\ shown = <<procs[widx].id>>
        /\ Key(script, loop.m) \notin Range(all_times)
        /\ \A i \in 1..Len(printed) : Key(script, loop.m) \notin Range(printed[i])

====
